---- MODULE Spec2Model ----
(***************************************************************************)
(* State-machine model of scan_ports (src/tools/network.py): one call of   *)
(* the scanner, from argument validation through the bounded worker pool   *)
(* (ThreadPoolExecutor), the as_completed consumer loop, and the final     *)
(* sort / de-duplication / return.                                         *)
(* A second specification, SpecCfg, models one call of                     *)
(* get_network_configs.                                                    *)
(***************************************************************************)
EXTENDS Integers, Sequences, FiniteSets, TLC

\* ---------------------------------------------------------------- bounds
\* longest explicit ports list, and widest port_range, that is enumerated
MaxLen == 2
\* max_workers is drawn from 0..MaxWorkers
MaxWorkers == 2
\* most lines the interface-listing command prints in a run
MaxOut == 3
\* its exit code is drawn from 0..MaxExit
MaxExit == 2

\* ------------------------------------------------------- program constants
\* lowest / highest port number accepted in a port_range
MinPortNumber == 1
MaxPortNumber == 65535

\* --------------------------------------------------------------- values
\* the two optional arguments: None, or a value
None == [none |-> TRUE, v |-> <<>>]
Given(x) == [none |-> FALSE, v |-> x]

\* an Optional[str]: None, or a string held as a sequence of tokens
NoneStr == [none |-> TRUE, s |-> <<>>]
Some(s) == [none |-> FALSE, s |-> s]

\* Python truthiness of an Optional[str] (`if err:`): None and "" are falsy
Truthy(e) == ~e.none /\ e.s # <<>>

\* str(exc) of the exceptions a connect attempt produces; "" is possible
ErrTexts == { <<>>, <<"timed out">> }
\* str(exc) of an error raised by the execution machinery itself
ExcTexts == { <<"boom">> }

\* decimal rendering of an integer, as the f-string does it
Digit(d) == <<"0", "1", "2", "3", "4", "5", "6", "7", "8", "9">>[d + 1]
RECURSIVE StrNat(_)
StrNat(n) == IF n < 10 THEN <<Digit(n)>> ELSE StrNat(n \div 10) \o <<Digit(n % 10)>>
StrInt(n) == IF n < 0 THEN <<"-">> \o StrNat(0 - n) ELSE StrNat(n)

\* mutant: the error text is recorded without the port
ProbeErrorMessage_NoPort(port, err) == err

\* f"port {port}: {err}"
ProbeErrorMessage(port, err) == <<"port ">> \o StrInt(port) \o <<": ">> \o err
\* mutant: the unexpected error is reported like a connect error
UnexpectedErrorMessage_Plain(p, exc) == <<"port ">> \o StrInt(p) \o <<": ">> \o exc

\* f"port {p}: unexpected error {exc}"
UnexpectedErrorMessage(p, exc) ==
    <<"port ">> \o StrInt(p) \o <<": ">> \o <<"unexpected error ">> \o exc

\* int(p) for the elements of a List[int]
IntOf(p) == p

\* mutant: range(start, end), the end port left out
RangeList_ExcludesEnd(start, end) == [k \in 1..(end - start) |-> start + k - 1]

\* list(range(start, end + 1))
RangeList(start, end) == [k \in 1..(end + 1 - start) |-> start + k - 1]

\* mutant: the lower bound of start is not tested
RangeValid_NoLowerBound(start, end) ==
    /\ start <= MaxPortNumber
    /\ MinPortNumber <= end /\ end <= MaxPortNumber
    /\ start <= end

\* line 102: the port_range test of the validation
RangeValid(start, end) ==
    /\ MinPortNumber <= start /\ start <= MaxPortNumber
    /\ MinPortNumber <= end /\ end <= MaxPortNumber
    /\ start <= end

\* mutant: the list is left in completion order
SortList_Unsorted(s) == s

\* list.sort() on a list of integers: ascending, duplicates kept
RECURSIVE Insert(_, _)
Insert(x, s) ==
    IF s = <<>> THEN <<x>>
    ELSE IF x <= Head(s) THEN <<x>> \o s
    ELSE <<Head(s)>> \o Insert(x, Tail(s))
RECURSIVE SortList(_)
SortList(s) == IF s = <<>> THEN <<>> ELSE Insert(Head(s), SortList(Tail(s)))

\* mutant: the errors are returned as collected
Dedup_None(s) == s

\* list(dict.fromkeys(errors)): first occurrence of each string, in order
RECURSIVE Dedup(_)
Dedup(s) ==
    IF s = <<>> THEN <<>>
    ELSE LET r == Dedup(SubSeq(s, 1, Len(s) - 1))
             x == s[Len(s)]
         IN IF \E k \in 1..Len(r) : r[k] = x THEN r ELSE Append(r, x)

\* ------------------------------------------------------------ the inputs
\* the port numbers an explicit list is built from
ListPorts == {1, 2}
\* explicit lists: any list of up to MaxLen of them, duplicates allowed
PortLists == UNION { [1..n -> ListPorts] : n \in 0..MaxLen }
\* range endpoints: around both ends of the legal interval
RangeEnds == {0, 1, 2, MaxPortNumber, MaxPortNumber + 1}
\* ranges: every malformed pair, and the well-formed ones of at most MaxLen ports
RangePairs == { r \in RangeEnds \X RangeEnds :
                  RangeValid(r[1], r[2]) => r[2] - r[1] < MaxLen }
\* a port_range passed along with an explicit list
ExtraRanges == { None, Given(<<1, 2>>), Given(<<2, 1>>), Given(<<0, 1>>) }

\* the hosts a scan is aimed at
Hosts == { "192.168.1.42" }

\* the lines `ifconfig` can print, and the most it prints in a run
OutputLines == { "lo0: flags=8049", "en0: flags=8863" }
\* str(e) of the exceptions subprocess.run raises when the command cannot be
\* started
SpawnErrors == { <<"[Errno 2] No such file or directory: 'ifconfig'">>,
                 <<"[Errno 13] Permission denied: 'ifconfig'">> }
\* str(e) of an exception raised while the output is collected
RunErrors == { <<"'utf-8' codec can't decode byte 0xff">> }
\* the exit code of a process that has not exited
NoExitCode == 0 - 1

\* get_network_configs is not being called
NoCfgCall == [pc |-> "idle", out |-> <<>>, code |-> NoExitCode, err |-> <<>>,
              status |-> "", network_configs |-> <<>>]

\* what a finished probe hands back: probe's return tuple, or an exception
\* stored in the future
Returned(port, is_open, err) ==
    [raises |-> FALSE, port |-> port, is_open |-> is_open, err |-> err, exc |-> <<>>]
Raising(exc) ==
    [raises |-> TRUE, port |-> 0, is_open |-> FALSE, err |-> NoneStr, exc |-> exc]
NoResult == Raising(<<"no result">>)

VARIABLES
    host,                \* argument: the target
    netcfg,              \* the get_network_configs call (see below)
    sockets,             \* the futures whose probe holds an open socket
    ports,               \* argument: None or a list of ints
    port_range,          \* argument: None or a pair
    max_workers,         \* argument
    pc,                  \* position of the calling thread
    ports_list,          \* the normalised list
    fstate,              \* per submitted future: "queued" | "running" | "done"
    fresult,             \* per future: its stored outcome
    queue,               \* the executor's work queue (indices into ports_list)
    threads,             \* worker threads the executor has started
    pool,                \* "none" | "open" | "shutdown"
    consumed,            \* the futures the loop has handled, in the order
                         \* as_completed yielded them
    open_ports,
    closed_or_filtered,
    errors,
    attempts,            \* per future: how many times probe() ran for it
    result,              \* the returned dict, once returned
    raised               \* message of the exception that left the call, or ""

vars == <<host, netcfg, sockets, ports, port_range, max_workers, pc, ports_list, fstate, fresult, queue,
          threads, pool, consumed, open_ports, closed_or_filtered, errors,
          attempts, result, raised>>

NoDict == [target |-> "", open_ports |-> <<>>, closed_or_filtered |-> <<>>,
           errors |-> <<>>, set |-> FALSE]

ToSet(s) == { s[k] : k \in DOMAIN s }
Indices == 1..Len(ports_list)
ConsumedSet == ToSet(consumed)
Submitted == DOMAIN fstate
Running == { i \in Submitted : fstate[i] = "running" }
Done == { i \in Submitted : fstate[i] = "done" }

\* state of the scan_ports variables while scan_ports has not started
ScanIdle(at) ==
    /\ pc = at
    /\ ports_list = <<>>
    /\ fstate = <<>>
    /\ fresult = <<>>
    /\ queue = <<>>
    /\ threads = 0
    /\ pool = "none"
    /\ sockets = {}
    /\ consumed = <<>>
    /\ open_ports = <<>>
    /\ closed_or_filtered = <<>>
    /\ errors = <<>>
    /\ attempts = <<>>
    /\ result = NoDict
    /\ raised = ""

Init ==
    /\ host \in Hosts
    /\ netcfg = NoCfgCall
    /\ \/ ports = None /\ port_range \in {None} \cup { Given(r) : r \in RangePairs }
       \/ ports \in { Given(l) : l \in PortLists } /\ port_range \in ExtraRanges
    /\ max_workers \in 0..MaxWorkers
    /\ ScanIdle("call")

\* mutant: ports is tested for truthiness, an empty list counts as not given
Validate_Falsy ==
    /\ pc = "call"
    /\ IF (ports = None \/ ports.v = <<>>) /\ port_range = None
       THEN /\ raised' = "either 'ports' or 'port_range' must be provided"
            /\ pc' = "raised"
            /\ UNCHANGED ports_list
       ELSE IF ports # None /\ ports.v # <<>>
       THEN /\ ports_list' = [k \in 1..Len(ports.v) |-> IntOf(ports.v[k])]
            /\ pc' = "pool"
            /\ UNCHANGED raised
       ELSE IF ~RangeValid(port_range.v[1], port_range.v[2])
       THEN /\ raised' = "invalid port_range; ports must be between 1 and 65535"
            /\ pc' = "raised"
            /\ UNCHANGED ports_list
       ELSE /\ ports_list' = RangeList(port_range.v[1], port_range.v[2])
            /\ pc' = "pool"
            /\ UNCHANGED raised
    /\ UNCHANGED <<host, netcfg, sockets, ports, port_range, max_workers, fstate, fresult, queue, threads,
                   pool, consumed, open_ports, closed_or_filtered, errors,
                   attempts, result>>

\* mutant: a port_range is validated whenever it is given
Validate_RangeChecked ==
    /\ pc = "call"
    /\ IF ports = None /\ port_range = None
       THEN /\ raised' = "either 'ports' or 'port_range' must be provided"
            /\ pc' = "raised"
            /\ UNCHANGED ports_list
       ELSE IF port_range # None /\ ~RangeValid(port_range.v[1], port_range.v[2])
       THEN /\ raised' = "invalid port_range; ports must be between 1 and 65535"
            /\ pc' = "raised"
            /\ UNCHANGED ports_list
       ELSE IF ports # None
       THEN /\ ports_list' = [k \in 1..Len(ports.v) |-> IntOf(ports.v[k])]
            /\ pc' = "pool"
            /\ UNCHANGED raised
       ELSE /\ ports_list' = RangeList(port_range.v[1], port_range.v[2])
            /\ pc' = "pool"
            /\ UNCHANGED raised
    /\ UNCHANGED <<host, netcfg, sockets, ports, port_range, max_workers, fstate, fresult, queue, threads,
                   pool, consumed, open_ports, closed_or_filtered, errors,
                   attempts, result>>

\* lines 93-104: input validation and port list creation
Validate ==
    /\ pc = "call"
    /\ IF ports = None /\ port_range = None
       THEN /\ raised' = "either 'ports' or 'port_range' must be provided"
            /\ pc' = "raised"
            /\ UNCHANGED ports_list
       ELSE IF ports # None
       THEN /\ ports_list' = [k \in 1..Len(ports.v) |-> IntOf(ports.v[k])]
            /\ pc' = "pool"
            /\ UNCHANGED raised
       ELSE IF ~RangeValid(port_range.v[1], port_range.v[2])
       THEN /\ raised' = "invalid port_range; ports must be between 1 and 65535"
            /\ pc' = "raised"
            /\ UNCHANGED ports_list
       ELSE /\ ports_list' = RangeList(port_range.v[1], port_range.v[2])
            /\ pc' = "pool"
            /\ UNCHANGED raised
    /\ UNCHANGED <<host, netcfg, sockets, ports, port_range, max_workers, fstate, fresult, queue, threads,
                   pool, consumed, open_ports, closed_or_filtered, errors,
                   attempts, result>>

\* line 122: ThreadPoolExecutor(max_workers=max_workers); the constructor
\* rejects max_workers <= 0 with ValueError
CreatePool ==
    /\ pc = "pool"
    /\ IF max_workers <= 0
       THEN /\ raised' = "max_workers must be greater than 0"
            /\ pc' = "raised"
            /\ UNCHANGED pool
       ELSE /\ pool' = "open"
            /\ pc' = IF Len(ports_list) = 0 THEN "consume" ELSE "submit"
            /\ UNCHANGED raised
    /\ UNCHANGED <<host, netcfg, sockets, ports, port_range, max_workers, ports_list, fstate, fresult,
                   queue, threads, consumed, open_ports, closed_or_filtered,
                   errors, attempts, result>>

\* mutant: the executor starts a thread whenever no worker is idle
SpawnThread_Unbounded == threads = Cardinality(Running)

\* the executor starts a thread for a new work item when no worker is idle
\* and fewer than max_workers threads exist
SpawnThread == threads = Cardinality(Running) /\ threads < max_workers

\* line 123: exe.submit(probe, p) for the next p of ports_list
Submit ==
    /\ pc = "submit"
    /\ LET i == Len(fstate) + 1 IN
         /\ i <= Len(ports_list)
         /\ fstate' = Append(fstate, "queued")
         /\ fresult' = Append(fresult, NoResult)
         /\ attempts' = Append(attempts, 0)
         /\ queue' = Append(queue, i)
         /\ threads' = IF SpawnThread THEN threads + 1 ELSE threads
         /\ pc' = IF i = Len(ports_list) THEN "consume" ELSE "submit"
    /\ UNCHANGED <<host, netcfg, sockets, ports, port_range, max_workers, ports_list, pool, consumed,
                   open_ports, closed_or_filtered, errors, result, raised>>

\* mutant: a worker thread ends after its first work item
WorkerFree_NoReuse == Cardinality(Running) + Cardinality(Done) < threads

\* a worker thread is free to take the next work item
WorkerFree == Cardinality(Running) < threads

\* a worker takes the head of the work queue and calls probe(port), which
\* opens its socket (lines 107-109)
StartProbe ==
    /\ queue # <<>>
    /\ WorkerFree
    /\ LET i == Head(queue) IN
         /\ fstate' = [fstate EXCEPT ![i] = "running"]
         /\ attempts' = [attempts EXCEPT ![i] = @ + 1]
         /\ sockets' = sockets \cup {i}
    /\ queue' = Tail(queue)
    /\ UNCHANGED <<host, netcfg, ports, port_range, max_workers, pc, ports_list, fresult,
                   threads, pool, consumed, open_ports, closed_or_filtered,
                   errors, result, raised>>

\* lines 108-116: what probe(port) can return
ProbeReturns(port) ==
    { Returned(port, TRUE, NoneStr) } \cup { Returned(port, FALSE, Some(e)) : e \in ErrTexts }

\* what the future of probe(port) can hold when it is done
FutureOutcomes(port) == ProbeReturns(port) \cup { Raising(x) : x \in ExcTexts }

\* mutant: the socket is closed only after a successful connect
SocketsAfter_LeakOnFailure(i, o) ==
    IF ~o.raises /\ o.is_open THEN sockets \ {i} ELSE sockets

\* lines 109-116: leaving the `with socket.socket(...) as s` block closes the
\* probe's socket, by return or by exception
SocketsAfter(i, o) == sockets \ {i}

\* mutant: a failed attempt is queued again once before its outcome counts
FinishProbe_Retry(i, o) ==
    /\ i \in Running
    /\ o \in FutureOutcomes(ports_list[i])
    /\ IF ~o.raises /\ ~o.is_open /\ attempts[i] < 2
       THEN /\ fstate' = [fstate EXCEPT ![i] = "queued"]
            /\ queue' = Append(queue, i)
            /\ UNCHANGED fresult
       ELSE /\ fstate' = [fstate EXCEPT ![i] = "done"]
            /\ fresult' = [fresult EXCEPT ![i] = o]
            /\ UNCHANGED queue
    /\ sockets' = sockets \ {i}
    /\ UNCHANGED <<host, netcfg, ports, port_range, max_workers, pc, ports_list, threads,
                   pool, consumed, open_ports, closed_or_filtered, errors,
                   attempts, result, raised>>

\* mutant: the worker thread itself files the port of its probe
FinishProbe_WritesLists(i, o) ==
    /\ i \in Running
    /\ o \in FutureOutcomes(ports_list[i])
    /\ fstate' = [fstate EXCEPT ![i] = "done"]
    /\ fresult' = [fresult EXCEPT ![i] = o]
    /\ sockets' = sockets \ {i}
    /\ open_ports' = IF ~o.raises /\ o.is_open
                     THEN Append(open_ports, ports_list[i]) ELSE open_ports
    /\ closed_or_filtered' = IF ~o.raises /\ o.is_open
                             THEN closed_or_filtered
                             ELSE Append(closed_or_filtered, ports_list[i])
    /\ UNCHANGED <<host, netcfg, ports, port_range, max_workers, pc, ports_list,
                   queue, threads, pool, consumed, errors, attempts, result, raised>>

\* the probe of future i concludes and its outcome is stored in the future
FinishProbe(i, o) ==
    /\ i \in Running
    /\ o \in FutureOutcomes(ports_list[i])
    /\ fstate' = [fstate EXCEPT ![i] = "done"]
    /\ fresult' = [fresult EXCEPT ![i] = o]
    /\ sockets' = SocketsAfter(i, o)
    /\ UNCHANGED <<host, netcfg, ports, port_range, max_workers, pc, ports_list, queue, threads,
                   pool, consumed, open_ports, closed_or_filtered, errors,
                   attempts, result, raised>>

\* lines 126-128: the open list after the outcome o of a future is handled
OpenAfter(o) ==
    IF ~o.raises /\ o.is_open THEN Append(open_ports, o.port) ELSE open_ports

\* mutant: the else of `if is_open` is lost, every returned port is also closed
ClosedAfter_NoElse(o, p) ==
    IF o.raises THEN Append(closed_or_filtered, p)
    ELSE Append(closed_or_filtered, o.port)

\* mutant: the except branch records the error but not the port
ClosedAfter_DropsUnexpected(o, p) ==
    IF o.raises THEN closed_or_filtered
    ELSE IF o.is_open THEN closed_or_filtered
    ELSE Append(closed_or_filtered, o.port)

\* lines 129-130, 134-136: the closed list after the outcome o of the future
\* submitted for port p is handled
ClosedAfter(o, p) ==
    IF o.raises THEN Append(closed_or_filtered, p)
    ELSE IF o.is_open THEN closed_or_filtered
    ELSE Append(closed_or_filtered, o.port)

\* mutant: the error text is appended for every returned outcome, open or not
ErrorsAfter_Always(o, p) ==
    IF o.raises THEN Append(errors, UnexpectedErrorMessage(p, o.exc))
    ELSE Append(errors, ProbeErrorMessage(o.port, IF o.err.none THEN <<"None">>
                                                  ELSE o.err.s))

\* lines 131-133, 137: the errors list after that outcome is handled
ErrorsAfter(o, p) ==
    IF o.raises THEN Append(errors, UnexpectedErrorMessage(p, o.exc))
    ELSE IF ~o.is_open /\ Truthy(o.err)
    THEN Append(errors, ProbeErrorMessage(o.port, o.err.s))
    ELSE errors

\* mutant: fut.result() is called outside any try, its exception leaves the call
AfterResult_NoTry(o) == IF o.raises THEN "raised" ELSE "consume"

\* lines 125-126, 134: where the calling thread is after fut.result(): an
\* exception of the future is caught, the loop goes on
AfterResult(o) == "consume"

\* lines 124-137: one iteration of the as_completed loop, for a done future
Consume(i) ==
    /\ pc = "consume"
    /\ i \in Done \ ConsumedSet
    /\ consumed' = Append(consumed, i)
    /\ LET o == fresult[i]
           p == ports_list[i]
       IN /\ open_ports' = OpenAfter(o)
          /\ closed_or_filtered' = ClosedAfter(o, p)
          /\ errors' = ErrorsAfter(o, p)
          /\ pc' = AfterResult(o)
    /\ UNCHANGED <<host, netcfg, sockets, ports, port_range, max_workers, ports_list, fstate, fresult,
                   queue, threads, pool, attempts, result, raised>>

\* mutant: the loop stops one future short
AllConsumed_OneShort == Cardinality(ConsumedSet) + 1 >= Cardinality(Indices)

\* as_completed is exhausted once every future of the dict has been yielded
AllConsumed == ConsumedSet = Indices

\* line 124: the for loop ends
LoopExit ==
    /\ pc = "consume"
    /\ AllConsumed
    /\ pc' = "exit"
    /\ UNCHANGED <<host, netcfg, sockets, ports, port_range, max_workers, ports_list, fstate, fresult,
                   queue, threads, pool, consumed, open_ports, closed_or_filtered,
                   errors, attempts, result, raised>>

\* shutdown(wait=True) returns once the workers drained the queue and ended
PoolDrained == queue = <<>> /\ Running = {}

\* line 122: leaving the with block, exe.shutdown(wait=True)
ExitPool ==
    /\ pc = "exit"
    /\ PoolDrained
    /\ pool' = "shutdown"
    /\ threads' = 0
    /\ pc' = "finish"
    /\ UNCHANGED <<host, netcfg, sockets, ports, port_range, max_workers, ports_list, fstate, fresult,
                   queue, consumed, open_ports, closed_or_filtered, errors,
                   attempts, result, raised>>

\* lines 139-149: sort both lists, de-duplicate the errors, return the dict
Return ==
    /\ pc = "finish"
    /\ open_ports' = SortList(open_ports)
    /\ closed_or_filtered' = SortList(closed_or_filtered)
    /\ errors' = Dedup(errors)
    /\ result' = [target |-> host, open_ports |-> open_ports',
                  closed_or_filtered |-> closed_or_filtered',
                  errors |-> errors', set |-> TRUE]
    /\ pc' = "returned"
    /\ UNCHANGED <<host, netcfg, sockets, ports, port_range, max_workers, ports_list, fstate, fresult,
                   queue, threads, pool, consumed, attempts, raised>>

Next ==
    \/ Validate
    \/ CreatePool
    \/ Submit
    \/ StartProbe
    \/ \E i \in Submitted : \E o \in FutureOutcomes(ports_list[i]) : FinishProbe(i, o)
    \/ \E i \in Submitted : Consume(i)
    \/ LoopExit
    \/ ExitPool
    \/ Return

Spec == Init /\ [][Next]_vars

\* ------------------------------------------------- get_network_configs
scanvars == <<host, sockets, ports, port_range, max_workers, pc, ports_list,
              fstate, fresult, queue, threads, pool, consumed, open_ports,
              closed_or_filtered, errors, attempts, result, raised>>

\* a call of get_network_configs; scan_ports is not running
InitCfg ==
    /\ host \in Hosts
    /\ ports = None
    /\ port_range = None
    /\ max_workers = MaxWorkers
    /\ ScanIdle("idle")
    /\ netcfg = [NoCfgCall EXCEPT !.pc = "call"]

\* line 29: subprocess.run starts `ifconfig`
CfgSpawn ==
    /\ netcfg.pc = "call"
    /\ netcfg' = [netcfg EXCEPT !.pc = "running"]
    /\ UNCHANGED scanvars

\* lines 29, 31-32: the command cannot be started; the exception is caught
\* and reported
CfgSpawnFails(e) ==
    /\ netcfg.pc = "call"
    /\ e \in SpawnErrors
    /\ netcfg' = [netcfg EXCEPT !.pc = "returned", !.err = e,
                                !.status = "error", !.network_configs = e]
    /\ UNCHANGED scanvars

\* line 29: the command prints a line, captured by capture_output=True
CfgOutput(l) ==
    /\ netcfg.pc = "running"
    /\ Len(netcfg.out) < MaxOut
    /\ l \in OutputLines
    /\ netcfg' = [netcfg EXCEPT !.out = Append(@, l)]
    /\ UNCHANGED scanvars

\* line 29: the command exits with code c
CfgExit(c) ==
    /\ netcfg.pc = "running"
    /\ c \in 0..MaxExit
    /\ netcfg' = [netcfg EXCEPT !.pc = "exited", !.code = c]
    /\ UNCHANGED scanvars

\* lines 29, 31-32: collecting the output raises; the exception is caught and
\* reported
CfgRunFails(e) ==
    /\ netcfg.pc = "running"
    /\ e \in RunErrors
    /\ netcfg' = [netcfg EXCEPT !.pc = "returned", !.err = e,
                                !.status = "error", !.network_configs = e]
    /\ UNCHANGED scanvars

\* str(e) of CalledProcessError
CalledProcessError(c) ==
    <<"Command 'ifconfig' returned non-zero exit status ">> \o StrInt(c) \o <<".">>

\* mutant: check=True, a non-zero exit code raises CalledProcessError
CheckRaises_True(c) == c # 0

\* line 29: check=False, the exit code never makes subprocess.run raise
CheckRaises(c) == FALSE

\* lines 29-32: subprocess.run returns the completed process and its stdout
\* is returned (or its exception is caught and reported)
CfgComplete ==
    /\ netcfg.pc = "exited"
    /\ netcfg' = IF CheckRaises(netcfg.code)
                 THEN [netcfg EXCEPT !.pc = "returned",
                                     !.err = CalledProcessError(netcfg.code),
                                     !.status = "error",
                                     !.network_configs = CalledProcessError(netcfg.code)]
                 ELSE [netcfg EXCEPT !.pc = "returned", !.status = "success",
                                     !.network_configs = netcfg.out]
    /\ UNCHANGED scanvars

NextCfg ==
    \/ CfgSpawn
    \/ \E e \in SpawnErrors : CfgSpawnFails(e)
    \/ \E l \in OutputLines : CfgOutput(l)
    \/ \E c \in 0..MaxExit : CfgExit(c)
    \/ \E e \in RunErrors : CfgRunFails(e)
    \/ CfgComplete

SpecCfg == InitCfg /\ [][NextCfg]_vars

\* every thread that can take a step eventually does; a started probe ends
\* (connect returns or times out)
FairSpec == Spec /\ WF_vars(Next)

\* ------------------------------------------------------------ the request
\* number of list entries equal to x
Occ(s, x) == Cardinality({ k \in DOMAIN s : s[k] = x })

RangeStart == port_range.v[1]
RangeEnd == port_range.v[2]
\* the range satisfies 1 <= start <= end <= 65535
RangeWellFormed ==
    /\ MinPortNumber <= RangeStart
    /\ RangeStart <= RangeEnd
    /\ RangeEnd <= MaxPortNumber
\* the call passes validation
RequestValid == ports # None \/ (port_range # None /\ RangeWellFormed)
\* the ports the request asks for, and how often each is asked for
RequestedSet == IF ports # None THEN ToSet(ports.v) ELSE RangeStart..RangeEnd
RequestedCount == IF ports # None THEN Len(ports.v) ELSE RangeEnd - RangeStart + 1
RequestedTimes(p) ==
    IF ports # None THEN Occ(ports.v, p)
    ELSE IF p \in RangeStart..RangeEnd THEN 1 ELSE 0
RequestDistinct == \A p \in RequestedSet : RequestedTimes(p) = 1

\* the scan has returned and every probe returned normally from probe()
ReturnedAllNormal ==
    pc = "returned" /\ \A i \in DOMAIN fresult : ~fresult[i].raises

ReturnedOpen == ToSet(result.open_ports)
ReturnedClosed == ToSet(result.closed_or_filtered)

\* ------------------------------------------------------------------ claims

\* C1 as stated: a returned result has len(open_ports) + len(closed_or_filtered)
\* equal to the number of DISTINCT requested ports (checked on the scans in
\* which no unexpected error occurred).
C1_DistinctCount ==
    ReturnedAllNormal =>
        Len(result.open_ports) + Len(result.closed_or_filtered)
            = Cardinality(RequestedSet)

\* C1 amended: a returned result has len(open_ports) + len(closed_or_filtered)
\* equal to the number of requested ports counted with multiplicity (the length
\* of the ports list, or end - start + 1 for a range); that is the number of
\* distinct ports whenever no port is listed twice.
C1_Completeness ==
    pc = "returned" =>
        /\ Len(result.open_ports) + Len(result.closed_or_filtered) = RequestedCount
        /\ RequestDistinct =>
             Len(result.open_ports) + Len(result.closed_or_filtered)
                 = Cardinality(RequestedSet)

\* a range of two ports was scanned, one found open and one not
C1_Witness ==
    /\ pc = "returned"
    /\ ports = None
    /\ RequestedCount = 2
    /\ Len(result.open_ports) = 1
    /\ Len(result.closed_or_filtered) = 1

\* C2: in a returned result the ports of open_ports together with the ports of
\* closed_or_filtered are exactly the requested ports, whatever the completion
\* order and the outcomes (success, failure, unexpected error).
C2_Coverage ==
    pc = "returned" => ReturnedOpen \cup ReturnedClosed = RequestedSet

\* two ports scanned, the second consumed first, one probe ending in an
\* unexpected error and the other in an open port
C2_Witness ==
    /\ pc = "returned"
    /\ consumed = <<2, 1>>
    /\ \E i \in Indices : fresult[i].raises
    /\ \E i \in Indices : ~fresult[i].raises /\ fresult[i].is_open
    /\ Cardinality(RequestedSet) = 2

\* C3 as stated: in every returned result no port is in both lists and every
\* requested port is in exactly one of them (checked on the scans in which no
\* unexpected error occurred).
C3_Disjoint ==
    ReturnedAllNormal =>
        /\ ReturnedOpen \cap ReturnedClosed = {}
        /\ \A p \in RequestedSet :
             Occ(result.open_ports, p) + Occ(result.closed_or_filtered, p) = 1

\* C3 amended: every requested entry lands in exactly one of the two lists (a
\* port requested k times occurs k times over both lists), and when the
\* requested ports are pairwise distinct no port is in both lists and every
\* requested port occurs exactly once.
C3_DisjointWhenDistinct ==
    pc = "returned" =>
        /\ \A p \in RequestedSet :
             Occ(result.open_ports, p) + Occ(result.closed_or_filtered, p)
                 = RequestedTimes(p)
        /\ RequestDistinct =>
             /\ ReturnedOpen \cap ReturnedClosed = {}
             /\ \A p \in RequestedSet :
                  Occ(result.open_ports, p) + Occ(result.closed_or_filtered, p) = 1

\* two distinct ports scanned, one in each list
C3_Witness ==
    /\ pc = "returned"
    /\ ports # None
    /\ RequestDistinct
    /\ Len(result.open_ports) = 1
    /\ Len(result.closed_or_filtered) = 1

\* C4: a call with neither ports nor port_range, or with only a port_range
\* that violates 1 <= start <= end <= 65535, fails with ValueError, and in it no
\* pool is created, no probe is submitted or run, and no result is produced.
C4_ValidationFirst ==
    (ports = None /\ (port_range = None \/ ~RangeWellFormed)) =>
        /\ pc \in {"call", "raised"}
        /\ pc = "raised" =>
             raised = IF port_range = None
                      THEN "either 'ports' or 'port_range' must be provided"
                      ELSE "invalid port_range; ports must be between 1 and 65535"
        /\ pool = "none"
        /\ threads = 0
        /\ fstate = <<>>
        /\ attempts = <<>>
        /\ queue = <<>>
        /\ ~result.set

\* the call with port_range = (0, 1) has raised
C4_Witness ==
    /\ pc = "raised"
    /\ ports = None
    /\ port_range = Given(<<0, 1>>)

\* number of probe() invocations made for port p
RECURSIVE AttemptsUpTo(_, _)
AttemptsUpTo(n, p) ==
    IF n = 0 THEN 0
    ELSE AttemptsUpTo(n - 1, p) + (IF ports_list[n] = p THEN attempts[n] ELSE 0)
ProbesOf(p) == AttemptsUpTo(Len(attempts), p)

C6_WorkerBudget ==
    /\ [](Cardinality(Running) <= max_workers)
    /\ [][(\E i \in DOMAIN fstate : fstate[i] = "queued" /\ fstate'[i] = "running")
            => Cardinality(Running) < max_workers]_vars

\* more ports than workers: the budget is used up and a probe waits in the queue
C6_Witness ==
    /\ Len(ports_list) > max_workers
    /\ Cardinality(Running) = max_workers
    /\ queue # <<>>

\* C7 as stated: each requested port is handed to the prober exactly once
\* (checked on the scans in which no unexpected error occurred).
C7_OncePerPort ==
    ReturnedAllNormal => \A p \in RequestedSet : ProbesOf(p) = 1

\* C7 amended: each entry of the port list is handed to the prober exactly once
\* (for a range: once for each integer of [start, end]; a port listed k times
\* is probed k times), no other port is probed, and no attempt is repeated.
C7_OncePerEntry ==
    /\ \A i \in DOMAIN attempts :
         /\ attempts[i] <= 1
         /\ fstate[i] \in {"running", "done"} <=> attempts[i] = 1
         /\ ports_list[i] \in RequestedSet
    /\ pc = "returned" => \A p \in RequestedSet : ProbesOf(p) = RequestedTimes(p)

\* a range of two ports was scanned and a probe that failed was not repeated
C7_Witness ==
    /\ pc = "returned"
    /\ ports = None
    /\ RequestedCount = 2
    /\ \E i \in Indices : ~fresult[i].raises /\ ~fresult[i].is_open

\* C8: a call that passes validation with max_workers >= 1 eventually returns
\* its result, given that every started probe ends and threads keep running.
C8_Terminates ==
    (pc = "call" /\ RequestValid /\ max_workers >= 1) ~> (pc = "returned" /\ result.set)

\* one worker served two ports and the call returned
C8_Witness ==
    /\ pc = "returned"
    /\ max_workers = 1
    /\ Len(ports_list) = 2

\* C9: when the call returns, every submitted probe has completed and been
\* consumed, none is queued or in flight, and the pool is shut down with no
\* worker thread left.
C9_NothingOutlives ==
    pc = "returned" =>
        /\ Submitted = Indices
        /\ \A i \in Indices : fstate[i] = "done"
        /\ ConsumedSet = Indices
        /\ Len(consumed) = Len(ports_list)
        /\ queue = <<>>
        /\ Running = {}
        /\ pool = "shutdown"
        /\ threads = 0

\* a scan of two ports on two workers has returned
C9_Witness ==
    /\ pc = "returned"
    /\ max_workers = 2
    /\ Len(ports_list) = 2
    /\ pool = "shutdown"

Ascending(s) == \A k \in 1..(Len(s) - 1) : s[k] <= s[k + 1]
StrictlyAscending(s) == \A k \in 1..(Len(s) - 1) : s[k] < s[k + 1]

\* C10 as stated: both returned lists are strictly ascending (checked on the
\* scans in which no unexpected error occurred).
C10_StrictlyAscending ==
    ReturnedAllNormal =>
        /\ StrictlyAscending(result.open_ports)
        /\ StrictlyAscending(result.closed_or_filtered)

\* C10 amended: both returned lists are ascending (non-decreasing) whatever the
\* completion order, and strictly ascending when the requested ports are
\* pairwise distinct; a port listed twice can occur twice in a list.
C10_Ascending ==
    pc = "returned" =>
        /\ Ascending(result.open_ports)
        /\ Ascending(result.closed_or_filtered)
        /\ RequestDistinct =>
             /\ StrictlyAscending(result.open_ports)
             /\ StrictlyAscending(result.closed_or_filtered)

\* two closed ports were consumed in descending order and returned ascending
C10_Witness ==
    /\ pc = "returned"
    /\ Len(consumed) = 2
    /\ ports_list[consumed[1]] > ports_list[consumed[2]]
    /\ Len(result.closed_or_filtered) = 2
    /\ StrictlyAscending(result.closed_or_filtered)

\* the outcome of future i makes the loop append an error string
ProducesError(i) ==
    fresult[i].raises \/ (~fresult[i].is_open /\ Truthy(fresult[i].err))
\* that string
ProducedMessage(i) ==
    IF fresult[i].raises
    THEN <<"port ">> \o StrInt(ports_list[i]) \o <<": ", "unexpected error ">>
             \o fresult[i].exc
    ELSE <<"port ">> \o StrInt(fresult[i].port) \o <<": ">> \o fresult[i].err.s
\* the error strings in the order the first n consumed futures produced them
RECURSIVE ProducedUpTo(_)
ProducedUpTo(n) ==
    IF n = 0 THEN <<>>
    ELSE IF ProducesError(consumed[n])
    THEN Append(ProducedUpTo(n - 1), ProducedMessage(consumed[n]))
    ELSE ProducedUpTo(n - 1)
Produced == ProducedUpTo(Len(consumed))
\* position of the first occurrence of x in s
FirstIndex(s, x) == CHOOSE k \in DOMAIN s : s[k] = x /\ \A j \in 1..(k - 1) : s[j] # x
NoRepeat(s) == \A k, l \in DOMAIN s : k # l => s[k] # s[l]

\* C11: the returned errors contain no string twice, contain exactly the
\* strings the consumed probes produced, and list them in the order in which
\* each was first produced as the probes completed.
C11_ErrorDedup ==
    /\ pc \in {"consume", "exit", "finish"} => errors = Produced
    /\ pc = "returned" =>
         /\ NoRepeat(result.errors)
         /\ ToSet(result.errors) = ToSet(Produced)
         /\ \A k, l \in DOMAIN result.errors :
              k < l => FirstIndex(Produced, result.errors[k])
                         < FirstIndex(Produced, result.errors[l])

\* the same error string was produced twice and is returned once
C11_Witness ==
    /\ pc = "returned"
    /\ Len(Produced) = 2
    /\ Produced[1] = Produced[2]
    /\ Len(result.errors) = 1

\* C12: when both ports and port_range are supplied, exactly the entries of
\* ports are probed; port_range adds no port and is not validated, so no
\* validation error is raised even for an out-of-bounds or inverted range
\* (the only failure left is the pool constructor's, for max_workers <= 0).
C12_PortsPrecedence ==
    (ports # None /\ port_range # None) =>
        /\ pc = "raised" =>
             /\ max_workers <= 0
             /\ raised = "max_workers must be greater than 0"
        /\ pc \notin {"call", "raised"} => ports_list = ports.v
        /\ \A i \in DOMAIN attempts : ports_list[i] \in ToSet(ports.v)
        /\ pc = "returned" =>
             /\ ReturnedOpen \cup ReturnedClosed = ToSet(ports.v)
             /\ \A p \in ToSet(ports.v) : ProbesOf(p) = Occ(ports.v, p)

\* ports = [1] was scanned and returned although port_range = (0, 1) is out
\* of bounds
C12_Witness ==
    /\ pc = "returned"
    /\ ports = Given(<<1>>)
    /\ port_range = Given(<<0, 1>>)
    /\ attempts = <<1>>

\* C13: a call with ports = [] (with or without a port_range) never fails
\* validation, never submits or runs a probe, and what it returns has
\* open_ports = [], closed_or_filtered = [] and errors = [].
C13_EmptyList ==
    ports = Given(<<>>) =>
        /\ raised \notin {"either 'ports' or 'port_range' must be provided",
                          "invalid port_range; ports must be between 1 and 65535"}
        /\ pc = "raised" => max_workers <= 0
        /\ fstate = <<>>
        /\ attempts = <<>>
        /\ queue = <<>>
        /\ threads = 0
        /\ pc = "returned" =>
             /\ result.set
             /\ result.open_ports = <<>>
             /\ result.closed_or_filtered = <<>>
             /\ result.errors = <<>>

\* the call with ports = [] and a port_range has returned
C13_Witness ==
    /\ pc = "returned"
    /\ ports = Given(<<>>)
    /\ port_range = Given(<<1, 2>>)
    /\ result.set

\* C14: get_network_configs never raises: once the command has run to its
\* exit it returns status "success" with the captured standard output,
\* whatever the exit code; when the command could not be started or its run
\* raised, it returns status "error" with the text of the exception.
C14_NeverRaises ==
    /\ netcfg.pc \in {"call", "running", "exited", "returned"}
    /\ netcfg.pc = "returned" =>
         IF netcfg.code # NoExitCode
         THEN /\ netcfg.status = "success"
              /\ netcfg.network_configs = netcfg.out
         ELSE /\ netcfg.status = "error"
              /\ netcfg.err # <<>>
              /\ netcfg.network_configs = netcfg.err

\* the command printed a line and exited with a non-zero code, and the call
\* returned success
C14_Witness ==
    /\ netcfg.pc = "returned"
    /\ netcfg.code > 0
    /\ netcfg.status = "success"
    /\ Len(netcfg.network_configs) = 1

\* C15: open_ports, closed_or_filtered and errors are written only by steps
\* of the calling thread (the loop body and the final sort / de-duplication),
\* never by a step of a worker thread; and while the loop runs every consumed
\* future accounts for exactly one entry of the two port lists.
C15_SingleWriter ==
    /\ [][(\/ open_ports' # open_ports
           \/ closed_or_filtered' # closed_or_filtered
           \/ errors' # errors)
            => /\ pc \in {"consume", "finish"}
               /\ fstate' = fstate
               /\ fresult' = fresult
               /\ queue' = queue
               /\ sockets' = sockets]_vars
    /\ [](pc \in {"consume", "exit", "finish"} =>
            Len(open_ports) + Len(closed_or_filtered) = Len(consumed))

\* the caller has filed one outcome while a worker is still running a probe
C15_Witness ==
    /\ pc = "consume"
    /\ Len(consumed) = 1
    /\ Len(open_ports) + Len(closed_or_filtered) = 1
    /\ Running # {}

\* C16: when obtaining a probe's result raises, the port that was submitted
\* is returned in closed_or_filtered with the errors entry
\* "port <p>: unexpected error <details>", the call does not fail, and every
\* other port is still filed by its own outcome.
C16_UnexpectedFolded ==
    /\ pc = "raised" => fstate = <<>>
    /\ pc = "returned" =>
         \A i \in Indices :
            IF fresult[i].raises
            THEN /\ ports_list[i] \in ReturnedClosed
                 /\ \E k \in DOMAIN result.errors :
                      result.errors[k] =
                          <<"port ">> \o StrInt(ports_list[i])
                              \o <<": ", "unexpected error ">> \o fresult[i].exc
            ELSE IF fresult[i].is_open
            THEN ports_list[i] \in ReturnedOpen
            ELSE ports_list[i] \in ReturnedClosed

\* of two distinct ports one ended in an unexpected error and the other was
\* found open
C16_Witness ==
    /\ pc = "returned"
    /\ Len(ports_list) = 2
    /\ ports_list[1] # ports_list[2]
    /\ fresult[1].raises
    /\ ~fresult[2].raises /\ fresult[2].is_open
    /\ result.open_ports = <<ports_list[2]>>
    /\ result.closed_or_filtered = <<ports_list[1]>>

\* C17: each running probe holds exactly one socket, its own; the socket is
\* closed when the probe concludes, whatever its outcome; so at most
\* max_workers sockets are open at any time and none when the call returns.
C17_SocketsReleased ==
    /\ sockets = Running
    /\ \A i \in Done : i \notin sockets
    /\ Cardinality(sockets) <= max_workers
    /\ pc \in {"returned", "raised"} => sockets = {}

\* one probe has failed and released its socket while the single worker's
\* next probe holds one
C17_Witness ==
    /\ max_workers = 1
    /\ Cardinality(sockets) = 1
    /\ \E i \in Done : ~fresult[i].raises /\ ~fresult[i].is_open /\ i \notin sockets

\* the entries of the request for port p whose probe was found open / not open
OpenEntries(p) ==
    { i \in Indices : ports_list[i] = p /\ ~fresult[i].raises /\ fresult[i].is_open }
ClosedEntries(p) ==
    { i \in Indices : ports_list[i] = p /\ (fresult[i].raises \/ ~fresult[i].is_open) }

\* C18: the returned target, open_ports and closed_or_filtered are a function
\* of the request and of the outcome of each entry's probe alone: target is
\* the host, each list is the ascending arrangement of the entries with that
\* outcome, and errors holds, in some order, the strings those outcomes
\* produce. Neither the completion order nor max_workers enters, so two runs
\* that agree on request and outcomes agree on all but the order of errors.
C18_PartitionDetermined ==
    pc = "returned" =>
        /\ result.target = host
        /\ Ascending(result.open_ports)
        /\ Ascending(result.closed_or_filtered)
        /\ \A p \in RequestedSet :
             /\ Occ(result.open_ports, p) = Cardinality(OpenEntries(p))
             /\ Occ(result.closed_or_filtered, p) = Cardinality(ClosedEntries(p))
        /\ ReturnedOpen \cup ReturnedClosed \subseteq RequestedSet
        /\ ToSet(result.errors)
             = { ProducedMessage(i) : i \in { j \in Indices : ProducesError(j) } }

\* ports 1 and 2 both failed, 2 completing first: the closed list is [1, 2]
\* all the same, only errors starts with the entry of port 2
C18_Witness ==
    /\ pc = "returned"
    /\ ports_list = <<1, 2>>
    /\ consumed = <<2, 1>>
    /\ result.closed_or_filtered = <<1, 2>>
    /\ Len(result.errors) = 2
    /\ result.errors[1] = ProducedMessage(2)

\* the string e starts with "port <p>: "
NamesPort(e, p) ==
    LET pre == <<"port ">> \o StrInt(p) \o <<": ">>
    IN Len(e) >= Len(pre) /\ SubSeq(e, 1, Len(pre)) = pre

\* C19: handling an open outcome never adds to errors; at every moment, and in
\* the returned result, each entry of errors names a port of
\* closed_or_filtered, so errors is empty whenever closed_or_filtered is.
C19_ErrorsOnlyForClosed ==
    /\ [][open_ports' # open_ports => errors' = errors]_vars
    /\ [](/\ \A k \in DOMAIN errors :
               \E p \in ToSet(closed_or_filtered) : NamesPort(errors[k], p)
          /\ closed_or_filtered = <<>> => errors = <<>>
          /\ pc = "returned" =>
               /\ \A k \in DOMAIN result.errors :
                    \E p \in ReturnedClosed : NamesPort(result.errors[k], p)
               /\ result.closed_or_filtered = <<>> => result.errors = <<>>)

\* one port was found open and one failed with an error text: a single error
C19_Witness ==
    /\ pc = "returned"
    /\ Len(result.open_ports) = 1
    /\ Len(result.closed_or_filtered) = 1
    /\ Len(result.errors) = 1
    /\ NamesPort(result.errors[1], result.closed_or_filtered[1])

\* the returned errors entries that name port p
EntriesNaming(p) == { k \in DOMAIN result.errors : NamesPort(result.errors[k], p) }

\* C20: de-duplication never merges the errors of different ports: every port
\* with an outcome that produced an error string keeps an entry of its own;
\* and when the requested ports are pairwise distinct, errors has exactly one
\* entry for each probe that ended with a non-empty error text (a connect
\* failure with text, or an unexpected error) and none for a failure with an
\* empty text, so its length is the number of such probes.
C20_OneErrorPerFailedProbe ==
    pc = "returned" =>
        /\ \A p \in RequestedSet :
             (\E i \in Indices : ports_list[i] = p /\ ProducesError(i))
                 <=> EntriesNaming(p) # {}
        /\ RequestDistinct =>
             /\ Len(result.errors) = Cardinality({ i \in Indices : ProducesError(i) })
             /\ \A i \in Indices :
                  Cardinality(EntriesNaming(ports_list[i]))
                      = IF ProducesError(i) THEN 1 ELSE 0

\* ports 1 and 2 both failed with the same text and errors has two entries
C20_Witness ==
    /\ pc = "returned"
    /\ ports_list = <<1, 2>>
    /\ fresult[1].err = Some(<<"timed out">>)
    /\ fresult[2].err = Some(<<"timed out">>)
    /\ Len(result.errors) = 2

====
